---- MODULE Spec2Model ----
(***************************************************************************)
(* Model of billing_anomaly.py: the column resolver find_similar_column    *)
(* and the rule engine detect_anomalies.                                   *)
(*                                                                         *)
(* Strings are sequences of one-character strings, so that str.lower() and *)
(* str.capitalize() are computed character by character.  A DataFrame is a *)
(* sequence of column headers and a sequence of rows, each row a tuple of  *)
(* cells aligned with the headers.  A cell is a string, a number or NaN    *)
(* (what pd.read_csv stores for an empty field).  Money amounts and the    *)
(* rates are fixed-point numbers in thousandths: 0.20 is 200, the          *)
(* tolerance 0.01 is 10; data usage is in whole GB.                        *)
(***************************************************************************)
EXTENDS Integers, Sequences, FiniteSets, TLC

VARIABLES df, pc, cols, anomalies, err, report

vars == <<df, pc, cols, anomalies, err, report>>

---------------------------------------------------------------------------
(* Bounds of the explored inputs *)

MaxRows == 3
MaxCols == 3

---------------------------------------------------------------------------
(* Python str operations *)

Range(s) == {s[i] : i \in 1..Len(s)}

UpperLetters == <<"A","B","C","D","E","F","G","H","I","J","K","L","M","N","O","P","Q","R","S","T","U","V","W","X","Y","Z">>
LowerLetters == <<"a","b","c","d","e","f","g","h","i","j","k","l","m","n","o","p","q","r","s","t","u","v","w","x","y","z">>

\* the characters that occur in the explored strings
Chars == Range(UpperLetters) \cup Range(LowerLetters)
         \cup {" ", "(", ")", "-", "_", "0", "1", "2", "3", "4", "5", "6", "7", "8", "9"}

LowerTable ==
    [c \in Chars |-> IF \E i \in 1..26 : UpperLetters[i] = c
                     THEN LowerLetters[CHOOSE i \in 1..26 : UpperLetters[i] = c]
                     ELSE c]

UpperTable ==
    [c \in Chars |-> IF \E i \in 1..26 : LowerLetters[i] = c
                     THEN UpperLetters[CHOOSE i \in 1..26 : LowerLetters[i] = c]
                     ELSE c]

LowerChar(c) == LowerTable[c]

UpperChar(c) == UpperTable[c]

\* str.lower()
Lower(s) == [i \in 1..Len(s) |-> LowerChar(s[i])]

\* str.capitalize(): first character upper-cased, the rest lower-cased
Capitalize(s) == [i \in 1..Len(s) |-> IF i = 1 THEN UpperChar(s[i]) ELSE LowerChar(s[i])]

---------------------------------------------------------------------------
(* String literals of the source *)

CUSTOMER_ID    == <<"C","u","s","t","o","m","e","r"," ","I","D">>
DATE           == <<"D","a","t","e">>
BILLING_AMOUNT == <<"B","i","l","l","i","n","g"," ","A","m","o","u","n","t">>
SERVICE_TYPE   == <<"S","e","r","v","i","c","e"," ","T","y","p","e">>
DATA_USAGE     == <<"D","a","t","a"," ","U","s","a","g","e"," ","(","G","B",")">>
ACCOUNT_STATUS == <<"A","c","c","o","u","n","t"," ","S","t","a","t","u","s">>
PLAN_TYPE      == <<"P","l","a","n"," ","T","y","p","e">>
PAYMENT_STATUS == <<"P","a","y","m","e","n","t"," ","S","t","a","t","u","s">>

BASIC     == <<"B","a","s","i","c">>
STANDARD  == <<"S","t","a","n","d","a","r","d">>
ULTRA     == <<"U","l","t","r","a">>
DATA      == <<"D","a","t","a">>
VOICE     == <<"V","o","i","c","e">>
SUSPENDED == <<"s","u","s","p","e","n","d","e","d">>
PENDING   == <<"p","e","n","d","i","n","g">>

\* the local variables of detect_anomalies that hold the resolved headers
ColVars == {"account_id_col", "date_col", "billing_amount_col", "service_type_col",
            "data_usage_col", "account_status_col", "plan_type_col", "payment_status_col"}

\* the target each of them is resolved with
Target(v) ==
    CASE v = "account_id_col"     -> CUSTOMER_ID
      [] v = "date_col"           -> DATE
      [] v = "billing_amount_col" -> BILLING_AMOUNT
      [] v = "service_type_col"   -> SERVICE_TYPE
      [] v = "data_usage_col"     -> DATA_USAGE
      [] v = "account_status_col" -> ACCOUNT_STATUS
      [] v = "plan_type_col"      -> PLAN_TYPE
      [] v = "payment_status_col" -> PAYMENT_STATUS

\* the keys of the anomalies dict
DUP  == "Duplicate Billings"
HL   == "High or Low Billings"
SVC  == "Invalid Service Types"
SUSP == "Billing for Suspended Accounts"
Categories == {DUP, HL, SVC, SUSP}

\* rates = {'Basic': 0.20, 'Standard': 0.15, 'Ultra': 0.10}, in thousandths
RateBasic    == 200
RateStandard == 150
RateUltra    == 100
\* the fallback of rates.get(..., 0)
RateDefault  == 0
\* the tolerance 0.01, in thousandths
Tolerance    == 10

---------------------------------------------------------------------------
(* Python values *)

None    == [some |-> FALSE, val |-> <<>>]
Some(x) == [some |-> TRUE, val |-> x]
\* truthiness of an optional string: None and '' are falsy
Truthy(x) == x.some /\ x.val # <<>>

Str(s) == [k |-> "str", s |-> s, n |-> 0]
Num(n) == [k |-> "num", s |-> <<>>, n |-> n]
NaN    == [k |-> "nan", s |-> <<>>, n |-> 0]

IsStr(c) == c.k = "str"
IsNum(c) == c.k = "num"
IsNaN(c) == c.k = "nan"

NoError == "none"

Abs(x) == IF x < 0 THEN -x ELSE x

---------------------------------------------------------------------------
(* DataFrame access *)

ColIndex(columns, h) == CHOOSE i \in 1..Len(columns) : columns[i] = h

\* row[col] and df[col][i]
Cell(d, i, h) == d.rows[i][ColIndex(d.columns, h)]

\* one row as a dict keyed by header, with every column of the frame
ToDict(d, i) == [h \in Range(d.columns) |-> Cell(d, i, h)]

\* variant: the records come out last row first
RECURSIVE RecordsReversed(_, _, _)
RecordsReversed(d, S, i) ==
    IF i > Len(d.rows) THEN <<>>
    ELSE RecordsReversed(d, S, i + 1) \o (IF i \in S THEN <<ToDict(d, i)>> ELSE <<>>)

\* df[mask].to_dict(orient='records'): the rows of S, in frame order
RECURSIVE Records(_, _, _)
Records(d, S, i) ==
    IF i > Len(d.rows) THEN <<>>
    ELSE (IF i \in S THEN <<ToDict(d, i)>> ELSE <<>>) \o Records(d, S, i + 1)

---------------------------------------------------------------------------
(* Column resolver *)

RECURSIVE FindFrom(_, _, _)
FindFrom(columns, target, i) ==
    IF i > Len(columns) THEN None
    ELSE IF Lower(columns[i]) = Lower(target) THEN Some(columns[i])
    ELSE FindFrom(columns, target, i + 1)

\* variant: the loop keeps going and the last match wins
RECURSIVE FindLastFrom(_, _, _, _)
FindLastFrom(columns, target, i, found) ==
    IF i > Len(columns) THEN found
    ELSE FindLastFrom(columns, target, i + 1,
                      IF Lower(columns[i]) = Lower(target) THEN Some(columns[i]) ELSE found)

find_similar_column_last(columns, target) == FindLastFrom(columns, target, 1, None)

\* for column in columns: if column.lower() == target.lower(): return column
find_similar_column(columns, target) == FindFrom(columns, target, 1)

\* the eight resolver calls of detect_anomalies
ResolveAll(columns) == [v \in ColVars |-> find_similar_column(columns, Target(v))]

---------------------------------------------------------------------------
(* Rule results: err is the exception raised (NoError if none), out the    *)
(* list the rule has built when it ends.                                   *)

Ok(out)         == [err |-> NoError, out |-> out]
Raise(kind, out) == [err |-> kind, out |-> out]

\* df[h] with h not a header of the frame (None included) is a KeyError
HasCols(d, hs) == \A h \in hs : h.some /\ h.val \in Range(d.columns)

\* --- Duplicate Billings ---

DuplicateGate(c) == Truthy(c.account_id_col) /\ Truthy(c.date_col)

\* variant: keep='first', which leaves the first row of each group unmarked
DuplicatedMaskKeepFirst(d, a, b) ==
    {i \in 1..Len(d.rows) :
        \E j \in 1..Len(d.rows) :
            /\ j < i
            /\ Cell(d, j, a) = Cell(d, i, a)
            /\ Cell(d, j, b) = Cell(d, i, b)}

\* df.duplicated(subset=[a, b], keep=False): the row has the same values in
\* both columns as some other row (missing values compare equal to each other)
DuplicatedMask(d, a, b) ==
    {i \in 1..Len(d.rows) :
        \E j \in 1..Len(d.rows) :
            /\ j # i
            /\ Cell(d, j, a) = Cell(d, i, a)
            /\ Cell(d, j, b) = Cell(d, i, b)}

DuplicateRule(d, c) ==
    IF ~HasCols(d, {c.account_id_col, c.date_col}) THEN Raise("KeyError", <<>>)
    ELSE Ok(Records(d, DuplicatedMask(d, c.account_id_col.val, c.date_col.val), 1))

\* --- High or Low Billings ---

\* variant: the gate forgets the billing amount column
HighLowGateNoAmount(c) == Truthy(c.data_usage_col) /\ Truthy(c.plan_type_col)

HighLowGate(c) ==
    Truthy(c.data_usage_col) /\ Truthy(c.plan_type_col) /\ Truthy(c.billing_amount_col)

\* variant: an unknown plan is billed at the Basic rate
RateOfDefaultBasic(name) ==
    CASE name = BASIC    -> RateBasic
      [] name = STANDARD -> RateStandard
      [] name = ULTRA    -> RateUltra
      [] OTHER           -> RateBasic

\* rates.get(name, 0)
RateOf(name) ==
    CASE name = BASIC    -> RateBasic
      [] name = STANDARD -> RateStandard
      [] name = ULTRA    -> RateUltra
      [] OTHER           -> RateDefault

\* variant: the comparison is >= 0.01
HighLowRowInclusive(usage, plan, amount) ==
    IF ~IsStr(plan) THEN [err |-> "AttributeError", flag |-> FALSE]
    ELSE IF IsStr(usage) \/ IsStr(amount) THEN [err |-> "TypeError", flag |-> FALSE]
    ELSE IF IsNaN(usage) \/ IsNaN(amount) THEN [err |-> NoError, flag |-> FALSE]
    ELSE [err |-> NoError,
          flag |-> Abs(amount.n - usage.n * RateOf(Capitalize(plan.s))) >= Tolerance]

\* variant: a missing amount is rejected instead of compared
HighLowRowRejectsNaN(usage, plan, amount) ==
    IF ~IsStr(plan) THEN [err |-> "AttributeError", flag |-> FALSE]
    ELSE IF IsStr(usage) \/ IsStr(amount) \/ IsNaN(amount)
    THEN [err |-> "TypeError", flag |-> FALSE]
    ELSE IF IsNaN(usage) THEN [err |-> NoError, flag |-> FALSE]
    ELSE [err |-> NoError,
          flag |-> Abs(amount.n - usage.n * RateOf(Capitalize(plan.s))) > Tolerance]

\* variant: a row without a string plan type is skipped
HighLowRowSkipsNonString(usage, plan, amount) ==
    IF ~IsStr(plan) THEN [err |-> NoError, flag |-> FALSE]
    ELSE IF IsStr(usage) \/ IsStr(amount) THEN [err |-> "TypeError", flag |-> FALSE]
    ELSE IF IsNaN(usage) \/ IsNaN(amount) THEN [err |-> NoError, flag |-> FALSE]
    ELSE [err |-> NoError,
          flag |-> Abs(amount.n - usage.n * RateOf(Capitalize(plan.s))) > Tolerance]

\* The body of the loop for one row: the exception it raises, or whether the
\* row is appended.  The plan type is capitalized before anything is
\* multiplied or subtracted; arithmetic on a str raises TypeError; arithmetic
\* with NaN gives NaN, and NaN > 0.01 is False.
HighLowRow(usage, plan, amount) ==
    IF ~IsStr(plan) THEN [err |-> "AttributeError", flag |-> FALSE]
    ELSE IF IsStr(usage) \/ IsStr(amount) THEN [err |-> "TypeError", flag |-> FALSE]
    ELSE IF IsNaN(usage) \/ IsNaN(amount) THEN [err |-> NoError, flag |-> FALSE]
    ELSE LET expected_amount == usage.n * RateOf(Capitalize(plan.s))
         IN  [err |-> NoError, flag |-> Abs(amount.n - expected_amount) > Tolerance]

RECURSIVE HighLowLoop(_, _, _, _)
HighLowLoop(d, c, i, acc) ==
    IF i > Len(d.rows) THEN Ok(acc)
    ELSE LET r == HighLowRow(Cell(d, i, c.data_usage_col.val),
                             Cell(d, i, c.plan_type_col.val),
                             Cell(d, i, c.billing_amount_col.val))
         IN  IF r.err # NoError THEN Raise(r.err, acc)
             ELSE HighLowLoop(d, c, i + 1, IF r.flag THEN Append(acc, ToDict(d, i)) ELSE acc)

HighLowRule(d, c) ==
    IF Len(d.rows) = 0 THEN Ok(<<>>)
    ELSE IF ~HasCols(d, {c.data_usage_col, c.plan_type_col, c.billing_amount_col})
    THEN Raise("KeyError", <<>>)
    ELSE HighLowLoop(d, c, 1, <<>>)

\* --- Invalid Service Types ---

ServiceGate(c) == Truthy(c.service_type_col)

valid_service_types == <<DATA, VOICE>>

\* df[h].unique(): the distinct cells of the column in order of first appearance
RECURSIVE UniqueFrom(_, _, _, _)
UniqueFrom(d, h, i, acc) ==
    IF i > Len(d.rows) THEN acc
    ELSE UniqueFrom(d, h, i + 1,
                    IF Cell(d, i, h) \in Range(acc) THEN acc ELSE Append(acc, Cell(d, i, h)))

Unique(d, h) == UniqueFrom(d, h, 1, <<>>)

\* variant: the comparison with the valid types keeps the case
IsInvalidServiceCaseSensitive(st) == st.s \notin Range(valid_service_types)

\* st.lower() not in [vst.lower() for vst in valid_service_types]
IsInvalidService(st) == Lower(st.s) \notin {Lower(vst) : vst \in Range(valid_service_types)}

ServiceRule(d, c) ==
    IF ~HasCols(d, {c.service_type_col}) THEN Raise("KeyError", <<>>)
    ELSE LET h == c.service_type_col.val
             unique_service_types == Unique(d, h)
         IN  IF \E st \in Range(unique_service_types) : ~IsStr(st)
             THEN Raise("AttributeError", <<>>)
             ELSE LET invalid_service_types ==
                          {st \in Range(unique_service_types) : IsInvalidService(st)}
                  IN  Ok(Records(d, {i \in 1..Len(d.rows) :
                                         Cell(d, i, h) \in invalid_service_types}, 1))

\* --- Billing for Suspended Accounts ---

SuspendedGate(c) == Truthy(c.account_status_col) /\ Truthy(c.payment_status_col)

\* Series.str exists for a column of dtype object only: a column with at
\* least one string, or a frame without rows.  A column of numbers and NaN
\* only has a numeric dtype and .str raises AttributeError.
StrAccessor(d, h) ==
    Len(d.rows) = 0 \/ \E i \in 1..Len(d.rows) : IsStr(Cell(d, i, h))

\* (df[h].str.lower() == lit)[i]: a missing value compares False
StrLowerEq(cell, lit) == IsStr(cell) /\ Lower(cell.s) = lit

\* variant: either condition is enough
SuspendedMatchEither(acct, pay) == StrLowerEq(acct, SUSPENDED) \/ StrLowerEq(pay, PENDING)

SuspendedMatch(acct, pay) == StrLowerEq(acct, SUSPENDED) /\ StrLowerEq(pay, PENDING)

SuspendedRule(d, c) ==
    IF ~HasCols(d, {c.account_status_col, c.payment_status_col}) THEN Raise("KeyError", <<>>)
    ELSE LET a == c.account_status_col.val
             p == c.payment_status_col.val
         IN  IF ~StrAccessor(d, a) \/ ~StrAccessor(d, p) THEN Raise("AttributeError", <<>>)
             ELSE Ok(Records(d, {i \in 1..Len(d.rows) :
                                    SuspendedMatch(Cell(d, i, a), Cell(d, i, p))}, 1))

---------------------------------------------------------------------------
(* detect_anomalies, one step per block of the function *)

NoErr == [kind |-> NoError, rule |-> "none"]

NoReport == [returned |-> FALSE, value |-> <<>>]

EmptyAnomalies == [k \in Categories |-> <<>>]

\* The effect of one rule block: skipped when its gate is falsy; otherwise
\* the category is assigned, or the exception leaves the function.  The
\* High or Low loop appends in place, so what it appended before raising
\* stays in the local dict; the other rules assign only on success.
RunRule(cat, gate, r, next) ==
    IF ~gate
    THEN /\ pc' = next
         /\ UNCHANGED <<anomalies, err>>
    ELSE IF r.err = NoError
    THEN /\ anomalies' = [anomalies EXCEPT ![cat] = r.out]
         /\ pc' = next
         /\ UNCHANGED err
    ELSE /\ anomalies' = [anomalies EXCEPT ![cat] = r.out]
         /\ err' = [kind |-> r.err, rule |-> cat]
         /\ pc' = "error"

Resolve ==
    /\ pc = "start"
    /\ cols' = ResolveAll(df.columns)
    /\ pc' = "dup"
    /\ UNCHANGED <<df, anomalies, err, report>>

DuplicateBillings ==
    /\ pc = "dup"
    /\ RunRule(DUP, DuplicateGate(cols), DuplicateRule(df, cols), "hl")
    /\ UNCHANGED <<df, cols, report>>

HighOrLowBillings ==
    /\ pc = "hl"
    /\ RunRule(HL, HighLowGate(cols), HighLowRule(df, cols), "svc")
    /\ UNCHANGED <<df, cols, report>>

InvalidServiceTypes ==
    /\ pc = "svc"
    /\ RunRule(SVC, ServiceGate(cols), ServiceRule(df, cols), "susp")
    /\ UNCHANGED <<df, cols, report>>

SuspendedAccounts ==
    /\ pc = "susp"
    /\ RunRule(SUSP, SuspendedGate(cols), SuspendedRule(df, cols), "ret")
    /\ UNCHANGED <<df, cols, report>>

Return ==
    /\ pc = "ret"
    /\ report' = [returned |-> TRUE, value |-> anomalies]
    /\ pc' = "done"
    /\ UNCHANGED <<df, cols, anomalies, err>>

---------------------------------------------------------------------------
(* The explored frames *)

SeqsUpTo(S, n) == UNION {[1..k -> S] : k \in 0..n}

Canon == <<CUSTOMER_ID, DATE, BILLING_AMOUNT, SERVICE_TYPE,
           DATA_USAGE, ACCOUNT_STATUS, PLAN_TYPE, PAYMENT_STATUS>>

\* headers that resemble a target without being a case variant of it
NearMiss == << <<"C","u","s","t"," ","I","D">>,
               <<"D","a","t","e"," ">>,
               <<"A","m","o","u","n","t">>,
               <<"S","e","r","v","i","c","e">>,
               <<"D","a","t","a"," ","U","s","a","g","e">>,
               <<"S","t","a","t","u","s">>,
               <<"P","l","a","n">>,
               <<"P","a","y","m","e","n","t","_","S","t","a","t","u","s">> >>

Upper(s) == [i \in 1..Len(s) |-> UpperChar(s[i])]

Row(cust, date, amount, svc, usage, acct, plan, pay) ==
    <<cust, date, amount, svc, usage, acct, plan, pay>>

A1 == Str(<<"A","1">>)
A2 == Str(<<"A","2">>)
D1 == Str(<<"2","0","2","4","-","0","1","-","0","1">>)

Video    == <<"V","i","d","e","o">>
Premium  == <<"P","r","e","m","i","u","m">>
Active   == <<"A","c","t","i","v","e">>
Paid     == <<"P","a","i","d">>
MixBasic == <<"b","A","s","I","c">>

\* pd.read_csv gives a column one dtype: strings and numbers do not mix
WellTyped(d) ==
    \A j \in 1..Len(d.columns) :
        ~(  (\E i \in 1..Len(d.rows) : IsStr(d.rows[i][j]))
         /\ (\E i \in 1..Len(d.rows) : IsNum(d.rows[i][j])) )

Frames(columns, rowset, n) ==
    {d \in [columns : {columns}, rows : SeqsUpTo(rowset, n)] : WellTyped(d)}

DupRows ==
    {Row(c, d, Num(10000), Str(DATA), Num(50), Str(Active), Str(BASIC), Str(Paid)) :
        c \in {A1, A2}, d \in {D1, NaN}}
    \cup {Row(A1, D1, Num(12000), Str(DATA), Num(50), Str(Active), Str(BASIC), Str(Paid))}

HighLowRichRows ==
    {Row(A1, D1, a, Str(DATA), u, Str(Active), p, Str(Paid)) :
        a \in {Num(0), Num(5), Num(10), Num(11), Num(100), Num(150), Num(189), Num(190),
               Num(200), Num(210), Num(211), NaN, Str(<<"a","b","c">>)},
        u \in {Num(0), Num(1), Num(2), NaN},
        p \in {Str(BASIC), Str(MixBasic), Str(Upper(STANDARD)), Str(Lower(ULTRA)),
               Str(Premium), Str(BASIC \o <<" ">>), NaN, Num(1)}}

HighLowRows ==
    {Row(A1, D1, Num(10000), Str(DATA), Num(50), Str(Active), Str(BASIC), Str(Paid)),
     Row(A1, D1, Num(12000), Str(DATA), Num(50), Str(Active), Str(Lower(BASIC)), Str(Paid)),
     Row(A1, D1, Num(10), Str(DATA), Num(50), Str(Active), Str(Premium), Str(Paid)),
     Row(A1, D1, Num(10000), Str(DATA), Num(50), Str(Active), NaN, Str(Paid)),
     Row(A1, D1, NaN, Str(DATA), Num(50), Str(Active), Str(BASIC), Str(Paid))}

ServiceRows ==
    {Row(A1, D1, Num(10000), s, Num(50), Str(Active), Str(BASIC), Str(Paid)) :
        s \in {Str(DATA), Str(Upper(DATA)), Str(Lower(VOICE)), Str(Video),
               Str(DATA \o <<" ">>), NaN}}

\* a service type column of numbers
NumericServiceRows ==
    {Row(A1, D1, Num(10000), Num(5), Num(50), Str(Active), Str(BASIC), Str(Paid))}

SuspendedRows ==
    {Row(A1, D1, Num(10000), Str(DATA), Num(50), a, Str(BASIC), p) :
        a \in {Str(Upper(SUSPENDED)), Str(Active), NaN},
        p \in {Str(Capitalize(PENDING)), Str(Paid)}}
    \cup {Row(A1, D1, Num(10000), Str(DATA), Num(50), Str(Upper(SUSPENDED)), Str(BASIC), NaN)}

\* a row every rule flags, and a row with every inspected field missing
FlaggedRow == Row(A1, D1, Num(12000), Str(Video), Num(50), Str(Upper(SUSPENDED)),
                  Str(BASIC), Str(PENDING))
MissingRow == Row(NaN, NaN, NaN, NaN, NaN, NaN, NaN, NaN)

HeaderRowSets ==
    {<<>>, <<MissingRow>>, <<FlaggedRow, FlaggedRow>>, <<FlaggedRow, MissingRow>>}

\* each header either as the source spells it or as a near miss
HeaderSeqs ==
    {[j \in 1..Len(Canon) |-> IF j \in S THEN Canon[j] ELSE NearMiss[j]] :
        S \in SUBSET (1..Len(Canon))}

CaseSeqs ==
    {[j \in 1..Len(Canon) |-> Lower(Canon[j])], [j \in 1..Len(Canon) |-> Upper(Canon[j])]}

HeaderFrames ==
    [columns : HeaderSeqs \cup CaseSeqs, rows : HeaderRowSets]

\* header lists for the resolver: case variants, near misses, several matches
HeaderPool ==
    {DATE, Upper(DATE), Lower(DATE), DATE \o <<" ">>, <<"D","a","t">>,
     <<"B","i","l","l","i","n","g"," ">> \o DATE, CUSTOMER_ID, Lower(CUSTOMER_ID)}

ResolverFrames ==
    {d \in [columns : SeqsUpTo(HeaderPool, MaxCols), rows : {<<>>}] :
        \A i, j \in 1..Len(d.columns) : i # j => d.columns[i] # d.columns[j]}

Datasets ==
    Frames(Canon, DupRows, MaxRows)
    \cup Frames(Canon, HighLowRichRows, 1)
    \cup Frames(Canon, HighLowRows, MaxRows)
    \cup Frames(Canon, ServiceRows, MaxRows)
    \cup Frames(Canon, NumericServiceRows, 1)
    \cup Frames(Canon, SuspendedRows, MaxRows)
    \cup HeaderFrames
    \cup ResolverFrames

Init ==
    /\ df \in Datasets
    /\ pc = "start"
    /\ cols = [v \in ColVars |-> None]
    /\ anomalies = EmptyAnomalies
    /\ err = NoErr
    /\ report = NoReport

Next ==
    \/ Resolve
    \/ DuplicateBillings
    \/ HighOrLowBillings
    \/ InvalidServiceTypes
    \/ SuspendedAccounts
    \/ Return

Spec == Init /\ [][Next]_vars

---------------------------------------------------------------------------
(* Vocabulary of the properties, stated on the frame itself *)

\* the two cases of a letter; any other character stands alone
CaseClass ==
    [c \in Chars |-> IF \E k \in 1..26 : c \in {UpperLetters[k], LowerLetters[k]}
                     THEN LET k == CHOOSE k \in 1..26 : c \in {UpperLetters[k], LowerLetters[k]}
                          IN  {UpperLetters[k], LowerLetters[k]}
                     ELSE {c}]

IsCasePair(x, y) == CaseClass[x] = CaseClass[y]

\* equal up to the case of letters, and nothing else
SameIgnoringCase(a, b) ==
    /\ Len(a) = Len(b)
    /\ \A k \in 1..Len(a) : a[k] = b[k] \/ IsCasePair(a[k], b[k])

Matches(d, t) == {i \in 1..Len(d.columns) : SameIgnoringCase(d.columns[i], t)}

HasHeader(d, t) == Matches(d, t) # {}

\* the position of the first header that matches t
Pos(d, t) == CHOOSE i \in Matches(d, t) : \A j \in Matches(d, t) : i <= j

\* the value row i holds for the role t
Val(d, i, t) == d.rows[i][Pos(d, t)]

RowIds(d) == 1..Len(d.rows)

\* row i as a record of all its columns
FullRecord(d, i) ==
    [h \in Range(d.columns) |-> d.rows[i][CHOOSE j \in 1..Len(d.columns) : d.columns[j] = h]]

InList(d, i, list) == FullRecord(d, i) \in Range(list)

\* the k-th smallest element of a set of numbers
KthOf(S, k) == CHOOSE x \in S : Cardinality({y \in S : y < x}) = k - 1

\* list holds exactly the rows of S, once each, in frame order
IsRowsOf(d, S, list) ==
    /\ Len(list) = Cardinality(S)
    /\ \A k \in 1..Len(list) : list[k] = FullRecord(d, KthOf(S, k))

Returned == pc = "done" /\ report.returned

Required(cat) ==
    CASE cat = DUP  -> {CUSTOMER_ID, DATE}
      [] cat = HL   -> {DATA_USAGE, PLAN_TYPE, BILLING_AMOUNT}
      [] cat = SVC  -> {SERVICE_TYPE}
      [] cat = SUSP -> {ACCOUNT_STATUS, PAYMENT_STATUS}

Runnable(d, cat) == \A t \in Required(cat) : HasHeader(d, t)

RuleOf(cat, d, c) ==
    CASE cat = DUP  -> DuplicateRule(d, c)
      [] cat = HL   -> HighLowRule(d, c)
      [] cat = SVC  -> ServiceRule(d, c)
      [] cat = SUSP -> SuspendedRule(d, c)

---------------------------------------------------------------------------
(* C1: a rule with an unresolved required role is skipped *)

\* C1: whenever a role a rule requires has no case-insensitive exact header
\* match, that rule's category stays empty and no exception comes from that
\* rule, whatever its other columns hold; a returned report has exactly the
\* four category keys, and every runnable rule's category holds what that
\* rule yields on the frame.
C1_UnresolvedRuleSkipped ==
    /\ \A cat \in Categories :
          ~Runnable(df, cat) => anomalies[cat] = <<>> /\ err.rule # cat
    /\ Returned =>
          /\ DOMAIN report.value = Categories
          /\ \A cat \in Categories :
                report.value[cat] = IF Runnable(df, cat)
                                    THEN RuleOf(cat, df, ResolveAll(df.columns)).out
                                    ELSE <<>>

\* the billing amount header is missing, a row has no plan type (which would
\* raise if the rule ran), and another rule has flagged a row
C1_Witness ==
    /\ Returned
    /\ ~HasHeader(df, BILLING_AMOUNT)
    /\ HasHeader(df, PLAN_TYPE) /\ HasHeader(df, DATA_USAGE)
    /\ \E i \in RowIds(df) : ~IsStr(Val(df, i, PLAN_TYPE))
    /\ report.value[HL] = <<>>
    /\ report.value[SUSP] # <<>>

---------------------------------------------------------------------------
(* C2: Duplicate Billings *)

SamePair(d, i, j) ==
    /\ Val(d, i, CUSTOMER_ID) = Val(d, j, CUSTOMER_ID)
    /\ Val(d, i, DATE) = Val(d, j, DATE)

HasTwin(d, i) == \E j \in RowIds(d) : j # i /\ SamePair(d, i, j)

\* C2: with Customer ID and Date resolved, the returned Duplicate Billings
\* list holds a row if and only if another row has the same (Customer ID,
\* Date) pair: every member of a group of two or more, no row with a unique pair.
C2_DuplicatesAreWholeGroups ==
    (Returned /\ Runnable(df, DUP)) =>
        /\ \A i \in RowIds(df) : InList(df, i, report.value[DUP]) <=> HasTwin(df, i)
        /\ Len(report.value[DUP]) = Cardinality({i \in RowIds(df) : HasTwin(df, i)})

\* a group of two rows that differ outside the pair, and a third, unique row
C2_Witness ==
    /\ Returned /\ Runnable(df, DUP)
    /\ \E i, j, k \in RowIds(df) :
          /\ i < j /\ SamePair(df, i, j) /\ df.rows[i] # df.rows[j]
          /\ ~HasTwin(df, k)
          /\ InList(df, i, report.value[DUP]) /\ InList(df, j, report.value[DUP])
          /\ ~InList(df, k, report.value[DUP])

---------------------------------------------------------------------------
(* C7: the column resolver *)

\* C7: every resolved header is the first header of the frame, in order, that
\* equals the target up to letter case, in its own spelling; the result is
\* None exactly when no header does; the header list is never changed.
C7_ResolverInv ==
    pc # "start" =>
        \A v \in ColVars :
            /\ cols[v] = None <=> Matches(df, Target(v)) = {}
            /\ Matches(df, Target(v)) # {} =>
                  cols[v] = Some(df.columns[Pos(df, Target(v))])

C7_FirstCaseInsensitiveMatch == []C7_ResolverInv /\ [][df'.columns = df.columns]_vars

\* two headers match Date, the first one in another spelling, after a near miss
C7_Witness ==
    /\ pc # "start"
    /\ Len(df.columns) = 3
    /\ df.columns[1] = DATE \o <<" ">>
    /\ df.columns[2] = Upper(DATE)
    /\ df.columns[3] = DATE
    /\ cols["date_col"] = Some(Upper(DATE))
    /\ cols["account_id_col"] = None

---------------------------------------------------------------------------
(* C3, C4: High or Low Billings *)

Recognized(plan) ==
    \E name \in {BASIC, STANDARD, ULTRA} : SameIgnoringCase(plan, name)

\* 0.20 for Basic, 0.15 for Standard, 0.10 for Ultra in any letter case, else 0
PlanRate(plan) ==
    IF SameIgnoringCase(plan, BASIC) THEN RateBasic
    ELSE IF SameIgnoringCase(plan, STANDARD) THEN RateStandard
    ELSE IF SameIgnoringCase(plan, ULTRA) THEN RateUltra
    ELSE RateDefault

Usage(i)  == Val(df, i, DATA_USAGE)
Plan(i)   == Val(df, i, PLAN_TYPE)
Amount(i) == Val(df, i, BILLING_AMOUNT)

OffBy(i) == Abs(Amount(i).n - Usage(i).n * PlanRate(Plan(i).s))

UnknownPlanRow(i) ==
    /\ IsStr(Plan(i)) /\ ~Recognized(Plan(i).s)
    /\ IsNum(Usage(i)) /\ IsNum(Amount(i))

\* C4 as stated: a row with an unrecognized plan type and a billing amount
\* other than exactly 0 is in the returned High or Low Billings list.
C4_AsStated ==
    (Returned /\ Runnable(df, HL)) =>
        \A i \in RowIds(df) :
            (UnknownPlanRow(i) /\ Amount(i).n # 0) => InList(df, i, report.value[HL])

\* C4 amended: a row with an unrecognized plan type (and numeric usage and
\* amount) is in the returned list if and only if |amount| > 0.01, whatever
\* its usage.
C4_UnknownPlanFlaggedBeyondTolerance ==
    (Returned /\ Runnable(df, HL)) =>
        \A i \in RowIds(df) :
            UnknownPlanRow(i) =>
                (InList(df, i, report.value[HL]) <=> Abs(Amount(i).n) > Tolerance)

\* an unrecognized plan with usage and a non-zero amount within the tolerance
C4_Witness ==
    /\ Returned /\ Runnable(df, HL)
    /\ \E i \in RowIds(df) :
          /\ UnknownPlanRow(i)
          /\ Usage(i).n > 0
          /\ Amount(i).n > 0 /\ Amount(i).n <= Tolerance
          /\ ~InList(df, i, report.value[HL])

---------------------------------------------------------------------------
(* C5: Invalid Service Types *)

Service(i) == Val(df, i, SERVICE_TYPE)

ValidService(s) ==
    \/ SameIgnoringCase(s, <<"d","a","t","a">>)
    \/ SameIgnoringCase(s, <<"v","o","i","c","e">>)

\* C5: with Service Type resolved and every row holding a string, the
\* returned Invalid Service Types list holds a row if and only if its service
\* type is not data or voice in some letter case.
C5_InvalidServiceIffNotDataOrVoice ==
    (/\ Returned /\ Runnable(df, SVC)
     /\ \A i \in RowIds(df) : IsStr(Service(i)))
    => /\ \A i \in RowIds(df) :
             InList(df, i, report.value[SVC]) <=> ~ValidService(Service(i).s)
       /\ Len(report.value[SVC]) =
             Cardinality({i \in RowIds(df) : ~ValidService(Service(i).s)})

\* two rows share an invalid value and are both listed; a row with DATA in
\* upper case is not
C5_Witness ==
    /\ Returned /\ Runnable(df, SVC)
    /\ Len(report.value[SVC]) = 2
    /\ \E i, j, k \in RowIds(df) :
          /\ i < j /\ Service(i) = Service(j) /\ Service(i) = Str(Video)
          /\ Service(k) = Str(Upper(DATA))
          /\ InList(df, i, report.value[SVC])
          /\ ~InList(df, k, report.value[SVC])

---------------------------------------------------------------------------
(* C6: Billing for Suspended Accounts *)

IsSuspendedPending(d, i) ==
    /\ IsStr(Val(d, i, ACCOUNT_STATUS))
    /\ SameIgnoringCase(Val(d, i, ACCOUNT_STATUS).s, <<"s","u","s","p","e","n","d","e","d">>)
    /\ IsStr(Val(d, i, PAYMENT_STATUS))
    /\ SameIgnoringCase(Val(d, i, PAYMENT_STATUS).s, <<"p","e","n","d","i","n","g">>)

SuspendedIds(d) == {i \in RowIds(d) : IsSuspendedPending(d, i)}

\* the frame with the value of role t in row i replaced by v
SetCell(d, i, t, v) == [d EXCEPT !.rows[i][Pos(d, t)] = v]

\* what the rule does on a frame
SuspendedOutcome(d) == SuspendedRule(d, ResolveAll(d.columns))

\* values that are no case variant of suspended or of pending
OtherValues ==
    {Str(Active), Str(Paid), Str(Upper(SUSPENDED) \o <<" ">>), Str(Lower(PENDING) \o <<"s">>), NaN}

ListedIffSuspendedPending ==
    /\ \A i \in RowIds(df) :
          InList(df, i, report.value[SUSP]) <=> IsSuspendedPending(df, i)
    /\ Len(report.value[SUSP]) = Cardinality(SuspendedIds(df))

\* row i leaves the list and the rest of the list stays
Unflags(i, t, v) ==
    LET d2 == SetCell(df, i, t, v)
        r  == SuspendedOutcome(d2)
    IN  /\ r.err = NoError
        /\ IsRowsOf(d2, SuspendedIds(df) \ {i}, r.out)

\* the column of role t holds a string in some row other than i
StringElsewhere(i, t) == \E j \in RowIds(df) : j # i /\ IsStr(Val(df, j, t))

\* C6 as stated: a row is listed if and only if it is suspended and pending,
\* and changing either field of a listed row to any value that is no case
\* variant of the required one removes that row and nothing else.
C6_AsStated ==
    (Returned /\ Runnable(df, SUSP)) =>
        /\ ListedIffSuspendedPending
        /\ \A i \in SuspendedIds(df) : \A t \in Required(SUSP) : \A v \in OtherValues :
              Unflags(i, t, v)

\* C6 amended: a row is listed if and only if it is suspended and pending;
\* changing either field of a listed row to another string, or to a missing
\* value while another row holds a string in that column, removes that row
\* and nothing else; changing it to a missing value when no other row holds a
\* string in that column makes the rule raise AttributeError.
C6_SuspendedAndPending ==
    (Returned /\ Runnable(df, SUSP)) =>
        /\ ListedIffSuspendedPending
        /\ \A i \in SuspendedIds(df) : \A t \in Required(SUSP) : \A v \in OtherValues :
              IF IsStr(v) \/ StringElsewhere(i, t)
              THEN Unflags(i, t, v)
              ELSE SuspendedOutcome(SetCell(df, i, t, v)).err = "AttributeError"

\* two listed rows and a suspended account that has paid; un-suspending the
\* first listed row leaves the other one
C6_Witness ==
    /\ Returned /\ Runnable(df, SUSP)
    /\ Len(report.value[SUSP]) = 2
    /\ \E i, j, k \in RowIds(df) :
          /\ i < j /\ IsSuspendedPending(df, i) /\ IsSuspendedPending(df, j)
          /\ Val(df, k, ACCOUNT_STATUS) = Str(Upper(SUSPENDED))
          /\ Val(df, k, PAYMENT_STATUS) = Str(Paid)
          /\ ~InList(df, k, report.value[SUSP])
          /\ SuspendedOutcome(SetCell(df, i, ACCOUNT_STATUS, Str(Active))).out
                = <<FullRecord(df, j)>>

---------------------------------------------------------------------------
(* C8: a missing billing amount *)

\* C8 as stated: with the High or Low Billings rule runnable and a row whose
\* billing amount is missing, no report is returned.
C8_AsStated ==
    (Runnable(df, HL) /\ \E i \in RowIds(df) : IsNaN(Amount(i))) => ~Returned

\* C8 amended: with the rule runnable, a row whose billing amount is missing
\* (NaN) is never listed, and the rule raises nothing as long as every plan
\* type is a string and no usage or amount is a string.
C8_MissingAmountLeftUnflagged ==
    Runnable(df, HL) =>
        /\ \A i \in RowIds(df) : IsNaN(Amount(i)) => ~InList(df, i, anomalies[HL])
        /\ (\A i \in RowIds(df) : IsStr(Plan(i)) /\ ~IsStr(Usage(i)) /\ ~IsStr(Amount(i)))
              => err.rule # HL

\* a row without an amount, then a row that is flagged, in a returned report
C8_Witness ==
    /\ Returned /\ Runnable(df, HL)
    /\ \E i, j \in RowIds(df) :
          /\ i < j
          /\ IsNaN(Amount(i)) /\ IsNum(Usage(i)) /\ IsStr(Plan(i))
          /\ ~InList(df, i, report.value[HL])
          /\ InList(df, j, report.value[HL])

---------------------------------------------------------------------------
(* C9: absent or non-string plan type or service type *)

BadPlan    == Runnable(df, HL) /\ \E i \in RowIds(df) : ~IsStr(Plan(i))
BadService == Runnable(df, SVC) /\ \E i \in RowIds(df) : ~IsStr(Service(i))

\* C9: with a non-string plan type under a runnable High or Low Billings
\* rule the function never gets past that rule, and with a non-string service
\* type under a runnable Invalid Service Types rule never past that one; once
\* an exception is raised nothing is returned, the categories of the later
\* rules stay empty, and no further step is taken.
C9_FailFastOnNonString ==
    /\ BadPlan => /\ pc \in {"start", "dup", "hl", "error"}
                  /\ pc = "error" => err.rule = HL
    /\ BadService => /\ pc \in {"start", "dup", "hl", "svc", "error"}
                     /\ pc = "error" => err.rule \in {HL, SVC}
    /\ pc = "error" =>
          /\ err.kind # NoError
          /\ ~report.returned
          /\ err.rule = HL => anomalies[SVC] = <<>> /\ anomalies[SUSP] = <<>>
          /\ err.rule = SVC => anomalies[SUSP] = <<>>
          /\ ~ENABLED Next

\* the loop raised on a row without a plan type after Duplicate Billings had
\* found rows and after an earlier row had been flagged; nothing is returned
C9_Witness ==
    /\ pc = "error"
    /\ err = [kind |-> "AttributeError", rule |-> HL]
    /\ BadPlan
    /\ anomalies[DUP] # <<>>
    /\ anomalies[HL] # <<>>
    /\ ~report.returned

---------------------------------------------------------------------------
(* C10: the lists are made of the frame's rows *)

IsSubsequenceOfRows(list) == \E S \in SUBSET RowIds(df) : IsRowsOf(df, S, list)

C10_ListsInv ==
    /\ \A cat \in Categories : IsSubsequenceOfRows(anomalies[cat])
    /\ report.returned =>
          /\ DOMAIN report.value = Categories
          /\ \A cat \in Categories : IsSubsequenceOfRows(report.value[cat])

\* C10: each category list is made of rows of the frame in frame order, each
\* row at most once, each record with the values of all the row's columns;
\* the frame is never changed.
C10_ListsAreSubsequences == []C10_ListsInv /\ [][df' = df]_vars

\* rows 1 and 3 form a group around a unique row 2 and are listed in that order
C10_Witness ==
    /\ Returned /\ Runnable(df, DUP)
    /\ Len(df.rows) = 3
    /\ SamePair(df, 1, 3) /\ ~HasTwin(df, 2)
    /\ df.rows[1] # df.rows[3]
    /\ report.value[DUP] = <<FullRecord(df, 1), FullRecord(df, 3)>>

====
